---- MODULE Spec2Model ----
(***************************************************************************)
(* A model of three parts of the mythril analysis core:                    *)
(*   - mythril/laser/plugin/loader.py        (LaserPluginLoader)           *)
(*   - mythril/analysis/modules/multiple_sends.py (MultipleSendsModule)    *)
(*   - mythril/analysis/issue_annotation.py  (IssueAnnotation)             *)
(* Each part has its own specification (SpecLoader, SpecDetect, SpecAnnot, *)
(* SpecPromote, SpecWorkers); the other variables keep their initial value.*)
(***************************************************************************)
EXTENDS Integers, Sequences, FiniteSets, TLC

(***************************************************************************)
(* Bounds of the model.                                                    *)
(***************************************************************************)
NumNames == 2          \* distinct plugin names
NumBuilders == 3       \* PluginBuilder objects (several may share a name)
MaxOverrideLen == 2    \* longest with_plugins list passed to instrument
MaxStates == 2         \* GlobalState objects created during one run
MaxCalls == 2          \* call-family pre-hooks on one path
NumVars == 1           \* boolean variables the path constraints speak about
MaxConditions == 2     \* longest conditions list of an IssueAnnotation
MaxIssues == 1         \* tentative Issues attached during one run
MaxDepth == 1          \* nested external calls of one state

None == "None"

PluginNames == 1..NumNames
BuilderIds == 1..NumBuilders

\* The name a builder object declares (plugin_builder.plugin_name): builders
\* b and b + NumNames declare the same name.
plugin_name(b) == ((b - 1) % NumNames) + 1

RECURSIVE SeqsUpTo(_, _)
SeqsUpTo(S, n) ==
    IF n = 0 THEN {<<>>}
    ELSE LET shorter == SeqsUpTo(S, n - 1)
         IN  shorter \cup {Append(s, x) : s \in {t \in shorter : Len(t) = n - 1}, x \in S}

Range(s) == {s[i] : i \in 1..Len(s)}

\* The with_plugins argument (Optional[List[str]]): None, or a list of names.
NoList == [none |-> TRUE, list |-> <<>>]
OverrideLists ==
    {NoList} \cup {[none |-> FALSE, list |-> l] : l \in SeqsUpTo(PluginNames, MaxOverrideLen)}

StateIds == 1..MaxStates

\* A path constraint is a predicate: variable v (v), its negation (-v), or
\* the predicate that no input satisfies (0).
Predicates == (-NumVars)..NumVars
Literals == Predicates \ {0}

VARIABLES
    laser_plugin_builders,  \* the registry dict, as its items in insertion order
    enabled,                \* the enabled attribute of every builder object
    loaderLast,             \* the last loader call and what it returned
    status,                 \* per GlobalState: "free", "active", "forked", "ended"
    constraints,            \* per GlobalState: state.mstate.constraints
    annotation,             \* per GlobalState: its MultipleSendsAnnotation (0: none),
                            \*   given as the reference held in its call_offsets field
    lists,                  \* the heap of call_offsets list objects, by reference
    bytecode,               \* the opcode at every hooked address of the analysed code
    hooked,                 \* per GlobalState: addresses of the call-family
                            \*   instructions pre-hooked on its path so far (history)
    _cache,                 \* MultipleSendsModule._cache
    _issues,                \* MultipleSendsModule._issues
    hookLast,               \* the last _execute call and what it did
    issue_annotations,      \* per GlobalState: the IssueAnnotations attached to it
    world_annotations,      \* the annotations persisted into the world state
    depth,                  \* per GlobalState: external calls it is nested in
    attached,               \* every (issue, conditions) a detector has attached (history)
    confirmed,              \* the tentative Issues promoted to confirmed findings
    workers,                \* per worker: the _execute invocation it is running
    initial                 \* _cache and _issues when the workers were started

loaderVars == <<laser_plugin_builders, enabled, loaderLast>>
detectVars ==
    <<bytecode, status, constraints, annotation, lists, hooked, _cache, _issues, hookLast>>
annotVars ==
    <<issue_annotations, world_annotations, depth, attached, confirmed>>
workerVars == <<workers, initial>>
vars == <<loaderVars, detectVars, annotVars, workerVars>>

(***************************************************************************)
(* LaserPluginLoader                                                       *)
(***************************************************************************)
\* `name in self.laser_plugin_builders`
Registered(dict, name) == \E i \in 1..Len(dict) : dict[i].name = name

\* `self.laser_plugin_builders[name]`
Lookup(dict, name) == dict[CHOOSE i \in 1..Len(dict) : dict[i].name = name].builder

NoCall == [op |-> "none", name |-> 0, builder |-> 0, with_plugins |-> NoList,
           raised |-> None, returned |-> None, instrumented |-> <<>>]

LoaderInit ==
    /\ laser_plugin_builders = <<>>
    /\ enabled \in [BuilderIds -> BOOLEAN]
    /\ loaderLast = NoCall

\* A load that overwrites an existing registration with the new builder.
LoadDictOverwrite(dict, b) ==
    IF Registered(dict, plugin_name(b))
    THEN [i \in 1..Len(dict) |->
             IF dict[i].name = plugin_name(b) THEN [dict[i] EXCEPT !.builder = b] ELSE dict[i]]
    ELSE Append(dict, [name |-> plugin_name(b), builder |-> b])

\* load(plugin_builder): the dict after the call.
LoadDict(dict, b) ==
    IF Registered(dict, plugin_name(b))
    THEN dict
    ELSE Append(dict, [name |-> plugin_name(b), builder |-> b])

load(b) ==
    /\ laser_plugin_builders' = LoadDict(laser_plugin_builders, b)
    /\ loaderLast' = [NoCall EXCEPT !.op = "load", !.name = plugin_name(b), !.builder = b]
    /\ UNCHANGED <<enabled, detectVars, annotVars, workerVars>>

\* enable(plugin_name): what the call hands back to its caller.  For a name
\* that is not registered the code RETURNS a ValueError object; nothing is
\* raised.
EnableOutcome(dict, name) ==
    IF ~Registered(dict, name)
    THEN [raised |-> None, returned |-> "ValueError"]
    ELSE [raised |-> None, returned |-> None]

enable(name) ==
    LET out == EnableOutcome(laser_plugin_builders, name) IN
    /\ enabled' = IF Registered(laser_plugin_builders, name)
                  THEN [enabled EXCEPT ![Lookup(laser_plugin_builders, name)] = TRUE]
                  ELSE enabled
    /\ loaderLast' = [NoCall EXCEPT !.op = "enable", !.name = name,
                                    !.raised = out.raised, !.returned = out.returned]
    /\ UNCHANGED <<laser_plugin_builders, detectVars, annotVars, workerVars>>

\* An is_enabled that answers True for a name that is not registered.
IsEnabledDefaultTrue(dict, flags, name) ==
    IF ~Registered(dict, name) THEN "True"
    ELSE IF flags[Lookup(dict, name)] THEN "True" ELSE "False"

\* is_enabled(plugin_name): the bool the call returns.
IsEnabled(dict, flags, name) ==
    IF ~Registered(dict, name) THEN "False"
    ELSE IF flags[Lookup(dict, name)] THEN "True" ELSE "False"

is_enabled(name) ==
    /\ loaderLast' = [NoCall EXCEPT !.op = "is_enabled", !.name = name,
                          !.returned = IsEnabled(laser_plugin_builders, enabled, name)]
    /\ UNCHANGED <<laser_plugin_builders, enabled, detectVars, annotVars, workerVars>>

\* The `enabled` local of instrument_virtual_machine for one dict item.
\* `not with_plugins` is true for None and for the empty list.
EffectivelyEnabled(item, flags, with_plugins) ==
    IF with_plugins.none \/ Len(with_plugins.list) = 0
    THEN flags[item.builder]
    ELSE item.name \in Range(with_plugins.list)

\* A loop that visits the dict items last-registered first.
RECURSIVE InstrumentedReversed(_, _, _)
InstrumentedReversed(dict, flags, with_plugins) ==
    IF dict = <<>> THEN <<>>
    ELSE LET rest == InstrumentedReversed(Tail(dict), flags, with_plugins) IN
         IF EffectivelyEnabled(Head(dict), flags, with_plugins)
         THEN rest \o <<Head(dict).builder>>
         ELSE rest

\* The builders whose plugin is constructed and initialized, in loop order.
RECURSIVE Instrumented(_, _, _)
Instrumented(dict, flags, with_plugins) ==
    IF dict = <<>> THEN <<>>
    ELSE LET rest == Instrumented(Tail(dict), flags, with_plugins) IN
         IF EffectivelyEnabled(Head(dict), flags, with_plugins)
         THEN <<Head(dict).builder>> \o rest
         ELSE rest

\* An instrument that stores the override into the builders' enabled flags.
InstrumentStoringFlags(with_plugins) ==
    /\ loaderLast' = [NoCall EXCEPT !.op = "instrument", !.with_plugins = with_plugins,
                          !.instrumented =
                              Instrumented(laser_plugin_builders, enabled, with_plugins)]
    /\ enabled' = [b \in BuilderIds |->
                      IF \E i \in 1..Len(laser_plugin_builders) :
                             laser_plugin_builders[i].builder = b
                      THEN EffectivelyEnabled([name |-> plugin_name(b), builder |-> b],
                                              enabled, with_plugins)
                      ELSE enabled[b]]
    /\ UNCHANGED <<laser_plugin_builders, detectVars, annotVars, workerVars>>

instrument_virtual_machine(with_plugins) ==
    /\ loaderLast' = [NoCall EXCEPT !.op = "instrument", !.with_plugins = with_plugins,
                          !.instrumented =
                              Instrumented(laser_plugin_builders, enabled, with_plugins)]
    /\ UNCHANGED <<laser_plugin_builders, enabled, detectVars, annotVars, workerVars>>

LoaderNext ==
    \/ \E b \in BuilderIds : load(b)
    \/ \E name \in PluginNames : is_enabled(name)
    \/ \E name \in PluginNames : enable(name)
    \/ \E w \in OverrideLists : instrument_virtual_machine(w)

\* What a step adds to the path constraints: nothing, or one predicate.
NewConstraints == {{}} \cup {{p} : p \in Predicates}

(***************************************************************************)
(* The solver bridge                                                       *)
(***************************************************************************)
\* A constraint set has a model unless it holds the unsatisfiable
\* predicate, or a literal and its negation.
Satisfiable(cs) == ~\E l \in cs : (0 - l) \in cs

\* get_transaction_sequence(state, constraints): the transaction sequence of
\* a model of the constraints, or UnsatError.
get_transaction_sequence(cs) ==
    IF Satisfiable(cs)
    THEN [unsat |-> FALSE, sequence |-> [solves |-> cs]]
    ELSE [unsat |-> TRUE, sequence |-> [solves |-> {}]]

(***************************************************************************)
(* MultipleSendsModule                                                     *)
(***************************************************************************)
\* The opcodes the module is pre-hooked on.
pre_hooks == <<"CALL", "DELEGATECALL", "STATICCALL", "CALLCODE", "RETURN", "STOP">>

\* The analysed programs, each given by its hooked instructions: two
\* call-family instructions and two transaction-ending ones.
Programs == {<<"CALL", "DELEGATECALL", "RETURN", "STOP">>,
             <<"STATICCALL", "CALLCODE", "STOP", "RETURN">>}
Addresses == DOMAIN (CHOOSE p \in Programs : TRUE)

\* state.get_current_instruction() of a state about to execute address a.
get_current_instruction(a) == [address |-> a, opcode |-> bytecode[a]]

IsCall(opcode) == opcode \in {"CALL", "DELEGATECALL", "STATICCALL", "CALLCODE"}

Issue(offset, transaction_sequence) ==
    [address |-> offset, swc_id |-> "MULTIPLE_SENDS",
     title |-> "Multiple Calls in a Single Transaction", severity |-> "Low",
     transaction_sequence |-> transaction_sequence]

\* A slice that keeps the first recorded call.
WholeList(call_offsets) == call_offsets

\* The slice `call_offsets[1:]`.
AfterFirst(call_offsets) == IF call_offsets = <<>> THEN <<>> ELSE Tail(call_offsets)

\* A loop without the `except UnsatError: continue` handler.
RECURSIVE ScanOffsetsNoHandler(_, _, _)
ScanOffsetsNoHandler(offsets, cs, queries) ==
    IF offsets = <<>>
    THEN [issues |-> <<>>, queries |-> queries, raised |-> None]
    ELSE LET r == get_transaction_sequence(cs) IN
         IF r.unsat
         THEN [issues |-> <<>>, queries |-> queries + 1, raised |-> "UnsatError"]
         ELSE [issues |-> <<Issue(Head(offsets), r.sequence)>>,
               queries |-> queries + 1, raised |-> None]

\* The loop `for offset in ...:` of _analyze_state over the offsets left.
RECURSIVE ScanOffsets(_, _, _)
ScanOffsets(offsets, cs, queries) ==
    IF offsets = <<>>
    THEN [issues |-> <<>>, queries |-> queries, raised |-> None]
    ELSE LET r == get_transaction_sequence(cs) IN
         IF r.unsat
         THEN ScanOffsets(Tail(offsets), cs, queries + 1)
         ELSE [issues |-> <<Issue(Head(offsets), r.sequence)>>,
               queries |-> queries + 1, raised |-> None]

\* An _analyze_state whose RETURN/STOP branch is not an `else`: the scan
\* also runs after a call offset was appended.
AnalyzeStateFallThrough(call_offsets, instruction, cs) ==
    LET offsets == IF IsCall(instruction.opcode)
                   THEN Append(call_offsets, instruction.address)
                   ELSE call_offsets
        r == ScanOffsets(AfterFirst(offsets), cs, 0)
    IN  [call_offsets |-> offsets,
         issues |-> r.issues, queries |-> r.queries, raised |-> r.raised]

\* _analyze_state(state): the call_offsets list after the call, the issues
\* returned, the number of solver queries made, and the exception raised.
_analyze_state(call_offsets, instruction, cs) ==
    IF IsCall(instruction.opcode)
    THEN [call_offsets |-> Append(call_offsets, instruction.address),
          issues |-> <<>>, queries |-> 0, raised |-> None]
    ELSE LET r == ScanOffsets(AfterFirst(call_offsets), cs, 0) IN
         [call_offsets |-> call_offsets,
          issues |-> r.issues, queries |-> r.queries, raised |-> r.raised]

\* A cache check that never finds the address.
NeverInCache(cache, address) == FALSE

\* `state.get_current_instruction()["address"] in self._cache`
InCache(cache, address) == address \in cache

\* A loop that adds nothing to the cache.
CacheAddNothing(cache, issues) == cache

\* `for issue in issues: self._cache.add(issue.address)`
CacheAdd(cache, issues) == cache \cup {issues[i].address : i \in 1..Len(issues)}

NoHook == [state |-> 0, address |-> 0, opcode |-> None, cached |-> FALSE,
           offsets |-> <<>>, queries |-> 0, issues |-> <<>>, raised |-> None]

DetectInit ==
    /\ bytecode \in Programs
    /\ \A a \in Addresses : bytecode[a] \in Range(pre_hooks)
    /\ status = [s \in StateIds |-> "free"]
    /\ constraints = [s \in StateIds |-> {}]
    /\ annotation = [s \in StateIds |-> 0]
    /\ lists = [s \in StateIds |-> <<>>]
    /\ hooked = [s \in StateIds |-> <<>>]
    /\ _cache = {}
    /\ _issues = <<>>
    /\ hookLast = NoHook

\* The call_offsets value a state sees through its annotation.
CallOffsets(s) == IF annotation[s] = 0 THEN <<>> ELSE lists[annotation[s]]

\* The executor creates the GlobalState of a new transaction.
NewState(s) ==
    /\ status[s] = "free"
    /\ \A t \in 1..(s - 1) : status[t] # "free"
    /\ status' = [status EXCEPT ![s] = "active"]
    /\ UNCHANGED <<bytecode, constraints, annotation, lists, hooked, _cache, _issues,
                   hookLast, loaderVars, workerVars, annotVars>>

\* The pre-hook _execute(state) with state s about to execute address a.
\* A RETURN or STOP then ends the transaction of s, and the GlobalState
\* object is destroyed.
_execute(s, a) ==
    LET instruction == get_current_instruction(a)
        \* get_or_create_annotation: a fresh annotation owns the fresh list s
        ref == IF annotation[s] = 0 THEN s ELSE annotation[s]
        offsets == IF annotation[s] = 0 THEN <<>> ELSE lists[ref]
        r == _analyze_state(offsets, instruction, constraints[s])
    IN
    /\ status[s] = "active"
    /\ IsCall(instruction.opcode) => Len(hooked[s]) < MaxCalls
    /\ IF InCache(_cache, a)
       THEN /\ hookLast' = [NoHook EXCEPT !.state = s, !.address = a,
                                !.opcode = instruction.opcode, !.cached = TRUE]
            /\ UNCHANGED <<_cache, _issues>>
       ELSE /\ _cache' = IF r.raised = None THEN CacheAdd(_cache, r.issues) ELSE _cache
            /\ _issues' = IF r.raised = None THEN _issues \o r.issues ELSE _issues
            /\ hookLast' = [NoHook EXCEPT !.state = s, !.address = a,
                                !.opcode = instruction.opcode,
                                !.offsets = r.call_offsets, !.queries = r.queries,
                                !.issues = r.issues, !.raised = r.raised]
    /\ UNCHANGED <<bytecode, loaderVars, workerVars, annotVars>>
    /\ IF IsCall(instruction.opcode)
       THEN /\ hooked' = [hooked EXCEPT ![s] = Append(@, a)]
            /\ annotation' = IF InCache(_cache, a) THEN annotation
                              ELSE [annotation EXCEPT ![s] = ref]
            /\ lists' = IF InCache(_cache, a) THEN lists
                         ELSE [lists EXCEPT ![ref] = r.call_offsets]
            /\ UNCHANGED <<status, constraints>>
       ELSE /\ status' = [status EXCEPT ![s] = "ended"]
            /\ hooked' = [hooked EXCEPT ![s] = <<>>]
            /\ annotation' = [annotation EXCEPT ![s] = 0]
            /\ lists' = [lists EXCEPT ![s] = <<>>]
            /\ constraints' = [constraints EXCEPT ![s] = {}]

\* MultipleSendsAnnotation.__copy__ with `result.call_offsets` bound to the
\* list of the original instead of a copy of it.
CopyRefShared(ref, fresh) == ref

\* MultipleSendsAnnotation.__copy__: the reference held by the copy's
\* call_offsets field, and the heap after `copy(self.call_offsets)` has
\* allocated the list `fresh`.
CopyRef(ref, fresh) == fresh
CopyHeap(heap, ref, fresh) == [heap EXCEPT ![fresh] = heap[ref]]

(***************************************************************************)
(* IssueAnnotation                                                         *)
(***************************************************************************)
IssueIds == 1..MaxIssues

\* The conditions lists a detector may pass: one to MaxConditions distinct
\* literals, listed in ascending order.
ConditionLists ==
    {c \in SeqsUpTo(Literals, MaxConditions) :
        Len(c) >= 1 /\ \A k \in 1..(Len(c) - 1) : c[k] < c[k + 1]}

\* An __init__ that keeps only the first condition.
IssueAnnotationFirstOnly(conditions, issue, detector) ==
    [conditions |-> SubSeq(conditions, 1, 1), issue |-> issue, detector |-> detector]

\* IssueAnnotation.__init__
IssueAnnotation(conditions, issue, detector) ==
    [conditions |-> conditions, issue |-> issue, detector |-> detector]

persist_to_world_state(a) == TRUE

persist_over_calls(a) == TRUE

\* Whether an annotation class defines its own duplication rule (__copy__).
HasCopyRule(class) ==
    IF class = "MultipleSendsAnnotation" THEN TRUE
    ELSE FALSE  \* IssueAnnotation defines none

\* The fork protocol for the IssueAnnotations of the parent: an annotation
\* with a duplication rule is duplicated, one without is dropped.
ForkIssueAnnotations(anns) ==
    IF HasCopyRule("IssueAnnotation") THEN anns ELSE {}

AnnotInit ==
    /\ issue_annotations = [s \in StateIds |-> {}]
    /\ world_annotations = {}
    /\ depth = [s \in StateIds |-> 0]
    /\ attached = {}
    /\ confirmed = {}

\* fork(state): the K free states `children` become copies of s; child c
\* inherits the constraints of s plus those of new[c] (one, or none) and,
\* for every annotation of s, what the fork protocol gives it.  The parent
\* is not executed further: it keeps its call-offset annotation, which its
\* children were copied from, and nothing else.
Fork(s, children, new) ==
    /\ status[s] = "active"
    /\ children # {}
    /\ \A c \in children : status[c] = "free"
    /\ \A t \in StateIds : (status[t] = "free" /\ t \notin children)
                              => \A c \in children : c < t
    /\ status' = [t \in StateIds |->
                     IF t = s THEN "forked" ELSE IF t \in children THEN "active"
                     ELSE status[t]]
    /\ constraints' = [t \in StateIds |->
                          IF t \in children
                          THEN constraints[s] \cup new[t]
                          ELSE IF t = s THEN {} ELSE constraints[t]]
    /\ annotation' = [t \in StateIds |->
                         IF t \in children /\ annotation[s] # 0
                         THEN CopyRef(annotation[s], t) ELSE annotation[t]]
    /\ lists' = [t \in StateIds |->
                    IF t \in children /\ annotation[s] # 0
                    THEN CopyHeap(lists, annotation[s], t)[t] ELSE lists[t]]
    /\ hooked' = [t \in StateIds |->
                     IF t \in children THEN hooked[s]
                     ELSE IF t = s THEN <<>> ELSE hooked[t]]
    /\ issue_annotations' = [t \in StateIds |->
                                IF t \in children
                                THEN ForkIssueAnnotations(issue_annotations[s])
                                ELSE IF t = s THEN {} ELSE issue_annotations[t]]
    /\ depth' = [t \in StateIds |->
                    IF t \in children THEN depth[s] ELSE IF t = s THEN 0 ELSE depth[t]]
    /\ UNCHANGED <<bytecode, _cache, _issues, hookLast, loaderVars, workerVars,
                   world_annotations, attached, confirmed>>

\* A non-branching step appends the path constraint l to state s.
add_constraint(s, p) ==
    /\ status[s] = "active"
    /\ p \notin constraints[s]
    /\ constraints' = [constraints EXCEPT ![s] = @ \cup {p}]
    /\ UNCHANGED <<bytecode, status, annotation, lists, hooked, _cache, _issues, hookLast,
                   loaderVars, workerVars, issue_annotations, world_annotations, depth,
                   attached, confirmed>>

\* A detector attaches the tentative Issue i, under `conditions`, to s.
attach(s, conditions, i) ==
    /\ status[s] = "active"
    /\ \A g \in attached : g.issue # i
    /\ \A j \in 1..(i - 1) : \E g \in attached : g.issue = j
    /\ issue_annotations' =
           [issue_annotations EXCEPT
               ![s] = @ \cup {IssueAnnotation(conditions, i, "detector")}]
    /\ attached' = attached \cup {[issue |-> i, conditions |-> conditions]}
    /\ UNCHANGED <<detectVars, loaderVars, workerVars, world_annotations, depth, confirmed>>

\* s crosses an external-call boundary: the annotations that declare
\* persist_over_calls go with it.
call_transition(s) ==
    /\ status[s] = "active"
    /\ depth[s] < MaxDepth
    /\ depth' = [depth EXCEPT ![s] = @ + 1]
    /\ issue_annotations' =
           [issue_annotations EXCEPT ![s] = {a \in @ : persist_over_calls(a)}]
    /\ UNCHANGED <<detectVars, loaderVars, workerVars, world_annotations, attached, confirmed>>

\* s returns from an external call.
return_transition(s) ==
    /\ status[s] = "active"
    /\ depth[s] > 0
    /\ depth' = [depth EXCEPT ![s] = @ - 1]
    /\ issue_annotations' =
           [issue_annotations EXCEPT ![s] = {a \in @ : persist_over_calls(a)}]
    /\ UNCHANGED <<detectVars, loaderVars, workerVars, world_annotations, attached, confirmed>>

\* The transaction of s commits: the annotations that declare
\* persist_to_world_state move into the world state.
commit(s) ==
    /\ status[s] = "active"
    /\ depth[s] = 0
    /\ world_annotations' =
           world_annotations \cup {a \in issue_annotations[s] : persist_to_world_state(a)}
    /\ status' = [status EXCEPT ![s] = "ended"]
    /\ constraints' = [constraints EXCEPT ![s] = {}]
    /\ issue_annotations' = [issue_annotations EXCEPT ![s] = {}]
    /\ UNCHANGED <<bytecode, annotation, lists, hooked, _cache, _issues, hookLast,
                   loaderVars, workerVars, depth, attached, confirmed>>

\* Every stored condition is satisfiable together with the constraints.
ConditionsHold(a, cs) ==
    \A k \in 1..Len(a.conditions) : Satisfiable(cs \cup {a.conditions[k]})

\* The later stage re-checks the conditions of annotation a of state s
\* against the constraints of s: it promotes the Issue, or discards it.
promote(s, a) ==
    /\ status[s] = "active"
    /\ a \in issue_annotations[s]
    /\ confirmed' = IF ConditionsHold(a, constraints[s])
                    THEN confirmed \cup {a.issue}
                    ELSE confirmed
    /\ issue_annotations' = [issue_annotations EXCEPT ![s] = @ \ {a}]
    /\ UNCHANGED <<detectVars, loaderVars, workerVars, world_annotations, depth, attached>>

(***************************************************************************)
(* _execute run by two workers on one module instance                      *)
(*                                                                         *)
(* Two workers explore sibling paths and each calls _execute(state) on the *)
(* one `detector` instance.  The code takes no lock; a step below is one   *)
(* operation the interpreter runs atomically: the membership test, the     *)
(* call of _analyze_state (which reads and writes only the worker's own    *)
(* state), one set.add, the list.extend.                                   *)
(***************************************************************************)
Workers == {"w1", "w2"}

\* The call-family addresses of a program.
CallAddresses(code) == {a \in DOMAIN code : IsCall(code[a])}

\* The constraints of a sibling path: satisfiable, or not.
PathConstraints == {{}, {0}}

\* One worker about to call _execute(state): the current address of its
\* state, the call_offsets of the state's annotation and its constraints.
Invocation(address, call_offsets, cs) ==
    [pc |-> "start", address |-> address, offsets0 |-> call_offsets,
     call_offsets |-> call_offsets, cs |-> cs, issues |-> <<>>, i |-> 0,
     seen |-> <<>>, added |-> {}, after |-> FALSE]

Invocations(code) ==
    {Invocation(a, o, cs) : a \in DOMAIN code,
                            o \in SeqsUpTo(CallAddresses(code), MaxCalls),
                            cs \in PathConstraints}

\* The module state the earlier paths of the run have left: nothing, or one
\* finding at a call address, cached.
InitialShared(code) ==
    {[cache |-> {}, issues |-> <<>>]}
        \cup {[cache |-> {a}, issues |-> <<Issue(a, [solves |-> {}])>>] :
                 a \in CallAddresses(code)}

WorkersIdle ==
    /\ workers = [w \in Workers |-> Invocation(0, <<>>, {})]
    /\ initial = [cache |-> {}, issues |-> <<>>]

\* Line 49-50: the cache check.
CheckCache(w) ==
    /\ workers[w].pc = "start"
    /\ workers' = [workers EXCEPT
           ![w].pc = IF InCache(_cache, workers[w].address) THEN "done" ELSE "analyze",
           ![w].seen = _issues,
           ![w].after = \A v \in Workers \ {w} : workers[v].pc \in {"done", "aborted"}]
    /\ UNCHANGED <<initial, loaderVars, detectVars, annotVars>>

\* Line 51: issues = self._analyze_state(state).
Analyze(w) ==
    LET r == _analyze_state(workers[w].call_offsets,
                            get_current_instruction(workers[w].address),
                            workers[w].cs)
    IN
    /\ workers[w].pc = "analyze"
    /\ workers' = [workers EXCEPT
           ![w].pc = IF r.raised = None THEN "add" ELSE "raised",
           ![w].call_offsets = r.call_offsets,
           ![w].issues = r.issues,
           ![w].i = 1]
    /\ UNCHANGED <<initial, loaderVars, detectVars, annotVars>>

\* A loop that also caches the address of the hooked instruction.
AddToCacheWithCurrent(w) ==
    /\ workers[w].pc = "add"
    /\ _cache' = CacheAdd(_cache, workers[w].issues) \cup {workers[w].address}
    /\ workers' = [workers EXCEPT ![w].pc = "extend",
                                  ![w].i = Len(workers[w].issues) + 1,
                                  ![w].added = @ \cup {workers[w].address}]
    /\ UNCHANGED <<initial, loaderVars, annotVars, bytecode, status, constraints,
                   annotation, lists, hooked, _issues, hookLast>>

\* Lines 52-53: one iteration of `for issue in issues:
\* self._cache.add(issue.address)`, or the end of the loop.
AddToCache(w) ==
    /\ workers[w].pc = "add"
    /\ IF workers[w].i <= Len(workers[w].issues)
       THEN LET issue == workers[w].issues[workers[w].i] IN
            /\ _cache' = CacheAdd(_cache, <<issue>>)
            /\ workers' = [workers EXCEPT ![w].i = @ + 1,
                                          ![w].added = @ \cup {issue.address}]
       ELSE /\ workers' = [workers EXCEPT ![w].pc = "extend"]
            /\ UNCHANGED _cache
    /\ UNCHANGED <<initial, loaderVars, annotVars, bytecode, status, constraints,
                   annotation, lists, hooked, _issues, hookLast>>

\* `self._issues = seen + issues` with the list read when the call began.
ExtendFromSeen(current, seen, issues) == seen \o issues

\* self._issues.extend(issues)
Extend(current, seen, issues) == current \o issues

\* Line 54.
ExtendIssues(w) ==
    /\ workers[w].pc = "extend"
    /\ _issues' = Extend(_issues, workers[w].seen, workers[w].issues)
    /\ workers' = [workers EXCEPT ![w].pc = "done"]
    /\ UNCHANGED <<initial, loaderVars, annotVars, bytecode, status, constraints,
                   annotation, lists, hooked, _cache, hookLast>>

\* The exploration of the worker's subtree is aborted while its _execute
\* call is in progress: the call is abandoned where it stands.
Abort(w) ==
    /\ workers[w].pc \in {"analyze", "add", "extend"}
    /\ workers' = [workers EXCEPT ![w].pc = "aborted"]
    /\ UNCHANGED <<initial, loaderVars, detectVars, annotVars>>

\* _execute run from its first line to its last on the module state
\* `shared`, for the state the invocation v was started with.
Serial(shared, v) ==
    IF InCache(shared.cache, v.address)
    THEN shared
    ELSE LET r == _analyze_state(v.offsets0, get_current_instruction(v.address), v.cs)
         IN  [cache |-> CacheAdd(shared.cache, r.issues),
              issues |-> Extend(shared.issues, shared.issues, r.issues)]

WorkersNext ==
    \/ \E w \in Workers : CheckCache(w)
    \/ \E w \in Workers : Analyze(w)
    \/ \E w \in Workers : AddToCache(w)
    \/ \E w \in Workers : ExtendIssues(w)
    \/ \E w \in Workers : Abort(w)

DetectNext ==
    \/ \E s \in StateIds : NewState(s)
    \/ \E s \in StateIds, a \in Addresses : _execute(s, a)
    \/ \E s \in StateIds, children \in SUBSET StateIds :
           \E new \in [children -> NewConstraints] : Fork(s, children, new)

AnnotNext ==
    \/ \E s \in StateIds : NewState(s)
    \/ \E s \in StateIds, children \in SUBSET StateIds :
           \E new \in [children -> NewConstraints] : Fork(s, children, new)
    \/ \E s \in StateIds, p \in Predicates : add_constraint(s, p)
    \/ \E s \in StateIds, conditions \in ConditionLists, i \in IssueIds :
           attach(s, conditions, i)
    \/ \E s \in StateIds : call_transition(s)
    \/ \E s \in StateIds : return_transition(s)
    \/ \E s \in StateIds : commit(s)
    \/ \E s \in StateIds : \E a \in issue_annotations[s] : promote(s, a)

\* The executor starts the next transaction once no state of the current
\* one is left to execute.
NextTransaction(s) ==
    /\ \A t \in StateIds : status[t] # "active"
    /\ NewState(s)

\* One transaction after the other, each on a single path: a detector
\* attaches tentative Issues, the path gathers constraints and crosses call
\* boundaries, and the later stage re-checks the annotations.
PromoteNext ==
    \/ \E s \in StateIds : NextTransaction(s)
    \/ \E s \in StateIds, p \in Predicates : add_constraint(s, p)
    \/ \E s \in StateIds, conditions \in ConditionLists, i \in IssueIds :
           attach(s, conditions, i)
    \/ \E s \in StateIds : call_transition(s)
    \/ \E s \in StateIds : return_transition(s)
    \/ \E s \in StateIds : commit(s)
    \/ \E s \in StateIds : \E a \in issue_annotations[s] : promote(s, a)

\* The loader before any call, with the builders as constructed.
LoaderIdle ==
    /\ laser_plugin_builders = <<>>
    /\ enabled = [b \in BuilderIds |-> TRUE]
    /\ loaderLast = NoCall

\* The detection module before any hook, on the first program.
DetectIdle == DetectInit /\ bytecode = CHOOSE p \in Programs : TRUE

\* The loader under test, the other components idle.
InitLoader == LoaderInit /\ DetectIdle /\ AnnotInit /\ WorkersIdle

SpecLoader == InitLoader /\ [][LoaderNext]_vars

\* The detection module hooked on the explored states of either program.
InitDetect == LoaderIdle /\ DetectInit /\ AnnotInit /\ WorkersIdle

SpecDetect == InitDetect /\ [][DetectNext]_vars

\* Execution states carrying annotations through fork, call, return, commit.
InitAnnot == LoaderIdle /\ DetectIdle /\ AnnotInit /\ WorkersIdle

SpecAnnot == InitAnnot /\ [][AnnotNext]_vars

\* The transactions of one path, up to the promotion of tentative Issues.
InitPromote == InitAnnot

SpecPromote == InitPromote /\ [][PromoteNext]_vars

\* Two workers, each about to call _execute on a state of its own, on a
\* module instance that earlier paths may have left a finding in.
InitWorkers ==
    /\ LoaderIdle
    /\ AnnotInit
    /\ bytecode = CHOOSE p \in Programs : TRUE
    /\ status = [s \in StateIds |-> "free"]
    /\ constraints = [s \in StateIds |-> {}]
    /\ annotation = [s \in StateIds |-> 0]
    /\ lists = [s \in StateIds |-> <<>>]
    /\ hooked = [s \in StateIds |-> <<>>]
    /\ hookLast = NoHook
    /\ initial \in InitialShared(bytecode)
    /\ _cache = initial.cache
    /\ _issues = initial.issues
    /\ workers \in [Workers -> Invocations(bytecode)]

SpecWorkers == InitWorkers /\ [][WorkersNext]_vars

(***************************************************************************)
(* Claims about LaserPluginLoader (checked under SpecLoader)               *)
(***************************************************************************)
RegisteredNames(dict) == {dict[i].name : i \in 1..Len(dict)}

\* C2: enable(name) for a name that was never loaded fails with an error
\* raised to the caller, and leaves the registry (names, builders, flags)
\* unchanged.
C2_EnableUnloadedFails ==
    [][(loaderLast'.op = "enable" /\ ~Registered(laser_plugin_builders, loaderLast'.name))
          => /\ loaderLast'.raised # None
             /\ laser_plugin_builders' = laser_plugin_builders
             /\ enabled' = enabled]_vars

\* C3: a load(builder) whose plugin name is already registered leaves the
\* registry unchanged: same items (so the name still maps to the builder of
\* the first load and the number of names does not grow) and same flags.
C3_DuplicateLoadIgnored ==
    [][(loaderLast'.op = "load" /\ Registered(laser_plugin_builders, loaderLast'.name))
          => /\ laser_plugin_builders' = laser_plugin_builders
             /\ enabled' = enabled]_vars

\* C3 witness: a load of a second builder under a registered name has run,
\* and the name maps to the other (first) builder, whose flag differs.
C3_Witness ==
    /\ loaderLast.op = "load"
    /\ Registered(laser_plugin_builders, loaderLast.name)
    /\ Lookup(laser_plugin_builders, loaderLast.name) # loaderLast.builder
    /\ enabled[Lookup(laser_plugin_builders, loaderLast.name)] # enabled[loaderLast.builder]
    /\ Len(laser_plugin_builders) = NumNames

\* C4: with an explicitly supplied override list (the empty list included)
\* instrument builds a plugin for exactly the registered names in the list.
C4_OverrideListExact ==
    (loaderLast.op = "instrument" /\ ~loaderLast.with_plugins.none)
        => {plugin_name(b) : b \in Range(loaderLast.instrumented)}
               = RegisteredNames(laser_plugin_builders) \cap Range(loaderLast.with_plugins.list)

\* C11: is_enabled(name) returns False for a name that was never loaded and
\* the stored flag of the name's builder otherwise, and changes nothing in
\* the registry; after enable(name) of a registered name its flag is True
\* and the flag of every other registered name is as before.
C11_IsEnabledReadsStoredFlag ==
    [][/\ loaderLast'.op = "is_enabled"
          => /\ loaderLast'.returned =
                    (IF loaderLast'.name \in RegisteredNames(laser_plugin_builders)
                     THEN IF enabled[Lookup(laser_plugin_builders, loaderLast'.name)]
                          THEN "True" ELSE "False"
                     ELSE "False")
             /\ laser_plugin_builders' = laser_plugin_builders
             /\ enabled' = enabled
       /\ (loaderLast'.op = "enable"
              /\ loaderLast'.name \in RegisteredNames(laser_plugin_builders))
          => /\ enabled'[Lookup(laser_plugin_builders', loaderLast'.name)]
             /\ \A n \in RegisteredNames(laser_plugin_builders) \ {loaderLast'.name} :
                    enabled'[Lookup(laser_plugin_builders', n)]
                        = enabled[Lookup(laser_plugin_builders, n)]]_vars

\* C11 witness: is_enabled has answered True for a registered name while
\* another registered name is disabled and a third name is not registered.
C11_Witness ==
    /\ loaderLast.op = "is_enabled"
    /\ loaderLast.returned = "True"
    /\ Registered(laser_plugin_builders, loaderLast.name)
    /\ \E n \in RegisteredNames(laser_plugin_builders) :
           ~enabled[Lookup(laser_plugin_builders, n)]

\* The position of builder b among the items of the registry (0: absent).
Position(dict, b) ==
    IF \E i \in 1..Len(dict) : dict[i].builder = b
    THEN CHOOSE i \in 1..Len(dict) : dict[i].builder = b
    ELSE 0

\* C15: the plugins an instrument call builds come from registered builders,
\* in the order in which their names were registered, one per name; they
\* are those of the enabled names (no override list) or of the listed names
\* (a list that names some plugin).
C15_InstrumentInRegistrationOrder ==
    loaderLast.op = "instrument"
        => LET built == loaderLast.instrumented IN
           /\ \A i \in 1..Len(built) : Position(laser_plugin_builders, built[i]) > 0
           /\ \A i, j \in 1..Len(built) :
                  i < j => Position(laser_plugin_builders, built[i])
                               < Position(laser_plugin_builders, built[j])
           /\ loaderLast.with_plugins.none
                 => Range(built) = {laser_plugin_builders[i].builder :
                                       i \in {k \in 1..Len(laser_plugin_builders) :
                                                 enabled[laser_plugin_builders[k].builder]}}
           /\ (~loaderLast.with_plugins.none /\ loaderLast.with_plugins.list # <<>>)
                 => {plugin_name(b) : b \in Range(built)}
                        = RegisteredNames(laser_plugin_builders)
                              \cap Range(loaderLast.with_plugins.list)

\* C15 witness: an instrument call has built a plugin for two names.
C15_Witness ==
    /\ loaderLast.op = "instrument"
    /\ Len(loaderLast.instrumented) >= 2
    /\ loaderLast.instrumented[1] # loaderLast.instrumented[2]

\* C16: an instrument call, with or without an override list, leaves the
\* registered names, their builders and every stored enabled flag unchanged.
C16_InstrumentLeavesRegistry ==
    [][loaderLast'.op = "instrument"
          => /\ laser_plugin_builders' = laser_plugin_builders
             /\ enabled' = enabled]_vars

\* C16 witness: an instrument call with an override list has built a plugin
\* whose stored flag is still False, and skipped one whose flag is still True.
C16_Witness ==
    /\ loaderLast.op = "instrument"
    /\ ~loaderLast.with_plugins.none
    /\ \E b \in Range(loaderLast.instrumented) : ~enabled[b]
    /\ \E i \in 1..Len(laser_plugin_builders) :
           /\ enabled[laser_plugin_builders[i].builder]
           /\ laser_plugin_builders[i].builder \notin Range(loaderLast.instrumented)

(***************************************************************************)
(* Claims about MultipleSendsModule (checked under SpecDetect)             *)
(***************************************************************************)
\* The step is the pre-hook of a RETURN or STOP on state s.
EndHook(s) == status[s] = "active" /\ status'[s] = "ended"

\* The step is the pre-hook of a call-family instruction on state s.
CallHook(s) == status[s] = "active" /\ status'[s] = "active" /\ hooked'[s] # hooked[s]

\* C1: the findings list never holds two Issues with the same address.
C1_NoTwoFindingsAtOneAddress ==
    \A i, j \in 1..Len(_issues) : i # j => _issues[i].address # _issues[j].address

C6_InfeasibleYieldsNothing ==
    [][\A s \in StateIds :
          (EndHook(s) /\ ~Satisfiable(constraints[s]))
          => /\ _issues' = _issues
             /\ _cache' = _cache
             /\ hookLast'.raised = None]_vars

\* C6 witness: a RETURN/STOP hook has queried the solver for a later call
\* offset, got UnsatError, and returned no issue.
C6_Witness ==
    /\ hookLast.opcode \in {"RETURN", "STOP"}
    /\ Len(hookLast.offsets) >= 2
    /\ hookLast.queries >= 1
    /\ hookLast.issues = <<>>
    /\ hookLast.raised = None

\* C7: a path with at most one call-family hook yields no finding at its
\* RETURN/STOP hook, and a call-family hook adds no finding and makes no
\* solver query.
C7_LoneCallIsNoFinding ==
    [][\A s \in StateIds :
          /\ (EndHook(s) /\ Len(hooked[s]) <= 1) => _issues' = _issues
          /\ CallHook(s) => (_issues' = _issues /\ hookLast'.queries = 0)]_vars

\* C7 witness: a RETURN/STOP hook has run the detection on a path with
\* exactly one recorded call, and the findings list is still empty.
C7_Witness ==
    /\ hookLast.opcode \in {"RETURN", "STOP"}
    /\ ~hookLast.cached
    /\ Len(hookLast.offsets) = 1
    /\ _issues = <<>>

\* C13: the call-offset list of a state equals, in execution order, the
\* addresses of all call-family instructions pre-hooked so far on its path,
\* those already reported as a finding on an earlier path included.
C13_EveryCallHookAppends ==
    \A s \in StateIds : status[s] = "active" => CallOffsets(s) = hooked[s]

\* C14: a hook on a state whose current-instruction address is in the cache
\* leaves the state's annotation, the cache and the findings list unchanged
\* and makes no solver query.
C14_CachedAddressReturnsAtOnce ==
    [][\A s \in StateIds :
          ((CallHook(s) \/ EndHook(s)) /\ hookLast'.state = s
              /\ hookLast'.address \in _cache)
          => /\ annotation' = annotation
             /\ lists' = lists
             /\ _cache' = _cache
             /\ _issues' = _issues
             /\ hookLast'.queries = 0
             /\ hookLast'.issues = <<>>]_vars

\* C14 witness: a hook has run on a state at an address that is in the
\* cache, with a finding reported at that address before.
C14_Witness ==
    /\ hookLast.cached
    /\ hookLast.address \in _cache
    /\ status[hookLast.state] = "active"
    /\ hookLast.address \in Range(hooked[hookLast.state])
    /\ \E i \in 1..Len(_issues) : _issues[i].address = hookLast.address

\* The addresses of the Issues of a findings list.
IssueAddresses(issues) == {issues[i].address : i \in 1..Len(issues)}

\* C19: after every hook the cache is exactly the set of addresses of the
\* findings, no cache entry is removed, and the findings appended before
\* are still there, unmodified and in place.
C19_CacheMirrorsFindings ==
    [][/\ _cache' = IssueAddresses(_issues')
       /\ _cache \subseteq _cache'
       /\ Len(_issues') >= Len(_issues)
       /\ SubSeq(_issues', 1, Len(_issues)) = _issues]_vars

\* C19 witness: a hook has appended a finding to a list that held one.
C19_Witness ==
    /\ hookLast.issues # <<>>
    /\ Len(_issues) >= 2
    /\ _issues[Len(_issues)] = hookLast.issues[1]
    /\ _cache # {}

(***************************************************************************)
(* Claims about annotations and forking (checked under SpecAnnot)          *)
(***************************************************************************)
\* The step forks state s.
ForkStep(s) == status[s] = "active" /\ status'[s] = "forked"

\* The states the step creates.
Children == {c \in StateIds : status[c] = "free" /\ status'[c] = "active"}

\* C8: a fork gives each child its own copy of every annotation the parent
\* held (the call-offset annotation in a list of its own with the parent's
\* offsets, and every IssueAnnotation), and a later call-family hook on one
\* state changes the call offsets seen by no other state.
C8_ForkCopiesEveryAnnotation ==
    [][\A s \in StateIds :
          /\ ForkStep(s) =>
                \A c \in Children :
                    /\ annotation[s] # 0 =>
                          /\ annotation'[c] \notin {0, annotation[s]}
                          /\ lists'[annotation'[c]] = lists[annotation[s]]
                    /\ \A a \in issue_annotations[s] : a \in issue_annotations'[c]
          /\ CallHook(s) =>
                \A t \in StateIds \ {s} :
                    (IF annotation'[t] = 0 THEN <<>> ELSE lists'[annotation'[t]])
                        = CallOffsets(t)]_vars

\* C9: an IssueAnnotation declares persistence across calls and into the
\* world state, and is still attached to every successor of its state after
\* a fork, a call, a return, and in the world state after the commit.
C9_IssueAnnotationSurvives ==
    [][\A s \in StateIds : \A a \in issue_annotations[s] :
          /\ persist_over_calls(a) /\ persist_to_world_state(a)
          /\ ForkStep(s) => \A c \in Children : a \in issue_annotations'[c]
          /\ depth'[s] # depth[s] => a \in issue_annotations'[s]
          /\ (status[s] = "active" /\ status'[s] = "ended") => a \in world_annotations'
      ]_vars

\* The conditions a detector gave when it attached tentative Issue i.
GivenConditions(i) == (CHOOSE g \in attached : g.issue = i).conditions

InfeasibleEndHook(v) ==
    /\ v.pc = "done"
    /\ ~IsCall(bytecode[v.address])
    /\ v.address \notin initial.cache
    /\ Len(v.offsets0) >= 2
    /\ ~Satisfiable(v.cs)
    /\ v.issues = <<>>

\* C12: when a RETURN/STOP hook has yielded no finding because the solver
\* reported infeasibility, it has added nothing to the cache, and a hook
\* that starts afterwards on another path, at the same instruction with the
\* same call offsets and satisfiable constraints, yields its finding.
C12_InfeasibleDoesNotSuppress ==
    \A w1, w2 \in Workers :
        (w1 # w2 /\ InfeasibleEndHook(workers[w1]))
        => /\ workers[w1].added = {}
           /\ (/\ workers[w2].pc = "done"
               /\ workers[w2].after
               /\ workers[w2].address = workers[w1].address
               /\ workers[w2].offsets0 = workers[w1].offsets0
               /\ Satisfiable(workers[w2].cs))
              => /\ Len(workers[w2].issues) = 1
                 /\ workers[w2].issues[1].address = workers[w2].offsets0[2]
                 /\ workers[w2].issues[1] \in Range(_issues)
                 /\ workers[w2].issues[1].address \in _cache

\* C12 witness: an infeasible RETURN/STOP hook has completed, and a hook
\* started after it at the same instruction with the same call offsets has
\* appended a finding.
C12_Witness ==
    \E w1, w2 \in Workers :
        /\ w1 # w2
        /\ InfeasibleEndHook(workers[w1])
        /\ workers[w2].pc = "done"
        /\ workers[w2].after
        /\ workers[w2].address = workers[w1].address
        /\ workers[w2].offsets0 = workers[w1].offsets0
        /\ workers[w2].issues # <<>>
        /\ _issues = initial.issues \o workers[w2].issues

\* The module state now.
Shared == [cache |-> _cache, issues |-> _issues]

\* C17: when both invocations have completed, however their steps were
\* interleaved, the cache and the findings list are those that one of the
\* two serial orders of the invocations produces.
C17_InterleavingsAreSerializable ==
    (\A w \in Workers : workers[w].pc = "done")
        => Shared \in {Serial(Serial(initial, workers[o[1]]), workers[o[2]]) :
                          o \in {<<"w1", "w2">>, <<"w2", "w1">>}}

\* C17 witness: two invocations that overlapped (neither began after the
\* other had completed) have both completed, each with a finding.
C17_Witness ==
    /\ \A w \in Workers : /\ workers[w].pc = "done"
                          /\ ~workers[w].after
                          /\ workers[w].issues # <<>>
    /\ Len(_issues) = Len(initial.issues) + 2

\* C18: the abort of an invocation changes neither the findings nor the
\* cache, and the aborted path leaves no address in the cache without a
\* finding at that address in the findings list.
C18_AbortLeavesModuleStateWhole ==
    [][\A w \in Workers :
          (workers[w].pc # "aborted" /\ workers'[w].pc = "aborted")
          => /\ _cache' = _cache
             /\ _issues' = _issues
             /\ \A x \in workers'[w].added : x \in IssueAddresses(_issues')]_vars

====
